---- MODULE Spec2Model ----
(***************************************************************************)
(* GridPulse simulation core: ShipControls (craft physics, shield, fall),  *)
(* Timer, RaceData (replay log) and Gameplay (race director).              *)
(*                                                                         *)
(* Numbers are fixed point.  Speeds, boost and repulsion are in 1/100 of   *)
(* a world unit per frame; the shield is in 1/245 (one collision at real   *)
(* speed n costs (n/7)^2 * 0.8 * 0.25 = n^2/245); times are milliseconds;  *)
(* dt is a whole number of 60fps baseline frames.                          *)
(*                                                                         *)
(* The collision map is an input: every update draws the pixel under the   *)
(* craft's new projected position, its three bilinear neighbours and the   *)
(* probe pixels from small sets.  The pose (dummy.position and             *)
(* dummy.quaternion) is a pair of integers; a physics step that moves the  *)
(* craft takes the position to the next of PlaceCount places.              *)
(***************************************************************************)
EXTENDS Integers, Sequences, FiniteSets, TLC

VARIABLES ship, op, frames, pose, now, timer, game, raceData, store, thrown,
          pixels, query, ladder, movement, manager

(* the pixel field, the last query on it, the leaderboard, the craft's   *)
(* vertical movement and the render manager                               *)
aux == <<pixels, query, ladder, movement, manager>>

vars == <<ship, op, frames, pose, now, timer, game, raceData, store, thrown, aux>>

(* ------------------------------------------------------------------ *)
(* Bounds of the model                                                 *)
(* ------------------------------------------------------------------ *)
MaxLog == 2
MaxFrames == 2
MaxNow == 13000
PlaceCount == 3
MaxRecord == 3
MaxTape == 1000

DtSet == {0, 1, 350}

(* ------------------------------------------------------------------ *)
(* ShipControls: constants                                             *)
(* ------------------------------------------------------------------ *)
thrust == 2
airResist == 2
airBrake == 2
maxSpeed == 700
boosterDecay == 1
maxShield == 245
fallDelay == 1500

boosterSpeed == maxSpeed \div 5

Min(a, b) == IF a < b THEN a ELSE b
Max(a, b) == IF a > b THEN a ELSE b

(* Math.round of a value held in 1/100 units: floor(x + 0.5) *)
Round100(x) == (x + 50) \div 100

(* ------------------------------------------------------------------ *)
(* Collision map pixels                                                *)
(* ------------------------------------------------------------------ *)
Pixel(r, g, b) == [r |-> r, g |-> g, b |-> b]
OpenPixel == Pixel(255, 255, 255)
WallPixel == Pixel(0, 0, 0)
BoostPixel == Pixel(255, 0, 0)
CheckPointPixel(k) == Pixel(255, 255, k)

(* getPixelBilinear at the integer coordinates collisionCheck passes:   *)
(* rx = ry = -0.5, so each of the four pixels weighs 1/4.  The value    *)
(* returned here is 4 * r, to stay in integers.                         *)
getPixelBilinearR4(c, nb) == c.r + nb[1] + nb[2] + nb[3]

Sample(c, nb, l, r, f) == [c |-> c, nb |-> nb, l |-> l, r |-> r, f |-> f]

(* The map situations a frame can end in: open track, a boost pad, a     *)
(* wall brushed on either side, a boost pad next to a wall, a wall met   *)
(* head-on, and open space off the track.                                *)
OpenTrack == Sample(OpenPixel, <<255, 255, 255>>, 255, 255, 255)
BoostPad == Sample(BoostPixel, <<255, 255, 255>>, 255, 255, 255)
WallOnLeft == Sample(OpenPixel, <<0, 255, 255>>, 0, 255, 255)
WallOnRight == Sample(OpenPixel, <<0, 0, 255>>, 255, 0, 255)
BoostPadByWall == Sample(BoostPixel, <<0, 255, 255>>, 255, 0, 255)
WallAhead == Sample(WallPixel, <<0, 0, 255>>, 0, 0, 255)
OffTrack == Sample(WallPixel, <<0, 0, 0>>, 0, 0, 0)

Samples ==
    {OpenTrack, BoostPad, WallOnLeft, WallOnRight, BoostPadByWall, WallAhead, OffTrack}

CrashSamples == {OpenTrack, BoostPadByWall, WallAhead, OffTrack}

(* ------------------------------------------------------------------ *)
(* ShipControls: state after construction                              *)
(* ------------------------------------------------------------------ *)
Keys == {"forward", "ltrigger", "rtrigger"}

NoCollision == [front |-> FALSE, left |-> FALSE, right |-> FALSE]

(* Some fields are bookkeeping of the model, not of the class: here is   *)
(* the map around the craft's position; repulsed is the direction of the *)
(* force the last collisionCheck() added; since the last reset(), destroys *)
(* counts the calls of destroy() (capped at MaxLog), fell tells whether  *)
(* fall() was called and branch names the branch the last update() took. *)
(* fallTimer is the time left until the setTimeout callback of fall()    *)
(* runs (-1: none pending).  collisionMap stands for                     *)
(* collisionDetection && collisionMap && collisionMap.loaded.             *)
ShipInit ==
    [active |-> TRUE, destroyed |-> FALSE, falling |-> FALSE,
     speed |-> 0, boost |-> 0, shield |-> maxShield,
     collision |-> NoCollision,
     key |-> [k \in Keys |-> FALSE],
     angular |-> 0,
     repulsed |-> "none",
     here |-> OpenTrack,
     collisionMap |-> TRUE,
     fallTimer |-> -1,
     destroys |-> 0, branch |-> "none", fell |-> FALSE]

(* ------------------------------------------------------------------ *)
(* ShipControls: operations, as functions of the craft record          *)
(* ------------------------------------------------------------------ *)

(* destroy(): deactivate, mark destroyed, clear the collision flags *)
destroy(s) ==
    [s EXCEPT !.active = FALSE, !.destroyed = TRUE, !.collision = NoCollision,
              !.destroys = Min(s.destroys + 1, MaxLog)]

(* fall(): deactivate, clear the flags, start falling and schedule the   *)
(* delayed callback that sets destroyed                                   *)
fall(s) ==
    [s EXCEPT !.active = FALSE, !.collision = NoCollision,
              !.falling = TRUE, !.fallTimer = fallDelay, !.fell = TRUE]

(* reset(position, rotation): the fields the method assigns (angular,   *)
(* falling, active and the pending fall timeout are not among them)     *)
reset(s) ==
    [s EXCEPT !.speed = 0, !.boost = 0, !.shield = maxShield,
              !.destroyed = FALSE,
              !.here = OpenTrack, !.destroys = 0, !.branch = "none", !.fell = FALSE]

(* update(), "Forward/backward thrust": the speed after the step *)
ThrustStep(s, dt) ==
    IF s.key["forward"] THEN s.speed + thrust * dt ELSE s.speed - airResist * dt

ThrustWhileInactive(s, dt) ==
    LET s1 == ThrustStep(s, dt)
        s2 == IF s.key["ltrigger"] THEN s1 - airBrake * dt ELSE s1
    IN  IF s.key["rtrigger"] THEN s2 - airBrake * dt ELSE s2

(* update(), forward thrust and the two air brakes (only while active) *)
Thrust(s, dt) ==
    LET s1 == ThrustStep(s, dt)
        s2 == IF s.key["ltrigger"] THEN s1 - airBrake * dt ELSE s1
        s3 == IF s.key["rtrigger"] THEN s2 - airBrake * dt ELSE s2
    IN  IF s.active THEN s3 ELSE s.speed

ClampSpeedNoFloor(v) == Min(v, maxSpeed)

(* update(), "Clamp speed" *)
ClampSpeed(v) == Max(0, Min(v, maxSpeed))

(* boosterCheck(dt): decay, then refill on a red pixel under the craft *)
IsBoostPad(c) == c.r = 255 /\ c.g < 127 /\ c.b < 127

boosterCheck(s, dt) ==
    LET b1 == s.boost - boosterDecay * dt
        b2 == IF b1 < 0 THEN 0 ELSE b1
    IN  IF ~s.collisionMap
          THEN s
          ELSE [s EXCEPT !.boost = IF IsBoostPad(s.here.c) THEN boosterSpeed ELSE b2]

(* update(), "Apply movement": the craft leaves its place only if the    *)
(* frame moves it (speed or boost over a dt > 0, or the repulsion of the *)
(* collision of the frame before); then the map around it is smp.        *)
Moves(s, dt) ==
    dt > 0 /\ (s.speed + s.boost > 0 \/ s.collision # NoCollision)

Translate(s, dt, smp) == [s EXCEPT !.here = IF Moves(s, dt) THEN smp ELSE s.here]

(* getRealSpeed(): Math.round(speed + boost) in whole world units *)
getRealSpeed(s) == Round100(s.speed + s.boost)

(* collisionCheck(), shield damage: sr * sr * 0.8 * shieldDamage, in 1/245 *)
ShieldDamage(s) == getRealSpeed(s) * getRealSpeed(s)

(* collisionCheck(), "Reduce speed on collision":                        *)
(* speed *= 0.8; speed *= 1 - 0.8 * (1 - r / 255), with r = r4 / 4       *)
CollisionSpeed(v, r4) == (((v * 4) \div 5) * (255 + r4)) \div 1275

OutOfBoundsSidesOnly(smp) == smp.r < 128 /\ smp.l < 128

(* collisionCheck(), "Check for out of bounds" *)
OutOfBounds(smp) == smp.r < 128 /\ smp.l < 128 /\ smp.f < 128

RepulsionSideSwapped(lCol, rCol) ==
    IF lCol > rCol THEN "left" ELSE IF lCol < rCol THEN "right" ELSE "front"

(* collisionCheck(), "Calculate repulsion direction": the collision flag *)
(* set for the red values lCol and rCol of the left and right probes     *)
RepulsionSide(lCol, rCol) ==
    IF rCol > lCol THEN "left" ELSE IF rCol < lCol THEN "right" ELSE "front"

(* collisionCheck(), the direction of the force added with each flag:    *)
(* repulsionForce.x -= amount repulses right, repulsionForce.x += amount *)
(* repulses left (the left probe is at +x), repulsionForce.z -= 4 *      *)
(* amount pushes straight back                                           *)
RepulsionDirection(flag) ==
    IF flag = "left" THEN "right" ELSE IF flag = "right" THEN "left" ELSE "back"

collisionCheckKeepsFlags(s) ==
    LET smp == s.here
        r4 == getPixelBilinearR4(smp.c, smp.nb)
        cleared == [s EXCEPT !.repulsed = "none"]
        hurt == [cleared EXCEPT !.shield = s.shield - ShieldDamage(s)]
        flag == RepulsionSide(smp.l, smp.r)
        side == [hurt EXCEPT !.collision[flag] = TRUE,
                             !.repulsed = RepulsionDirection(flag),
                             !.speed = IF flag = "front" THEN 0 ELSE hurt.speed]
        out == IF OutOfBounds(smp) THEN fall(side) ELSE side
    IN  IF ~s.collisionMap
          THEN s
          ELSE IF r4 < 4 * 255
            THEN [out EXCEPT !.speed = CollisionSpeed(out.speed, r4), !.boost = 0]
            ELSE cleared

(* collisionCheck(dt) on the map around the craft *)
collisionCheck(s) ==
    LET smp == s.here
        r4 == getPixelBilinearR4(smp.c, smp.nb)
        cleared == [s EXCEPT !.collision = NoCollision, !.repulsed = "none"]
        hurt == [cleared EXCEPT !.shield = s.shield - ShieldDamage(s)]
        flag == RepulsionSide(smp.l, smp.r)
        side == [hurt EXCEPT !.collision[flag] = TRUE,
                             !.repulsed = RepulsionDirection(flag),
                             !.speed = IF flag = "front" THEN 0 ELSE hurt.speed]
        out == IF OutOfBounds(smp) THEN fall(side) ELSE side
    IN  IF ~s.collisionMap
          THEN s
          ELSE IF r4 < 4 * 255
            THEN [out EXCEPT !.speed = CollisionSpeed(out.speed, r4), !.boost = 0]
            ELSE cleared

(* update(), "Check shield" *)
ShieldDepleted(s) == s.shield <= 0

CheckShieldNoDestroy(s) ==
    IF ShieldDepleted(s) THEN [s EXCEPT !.shield = 0] ELSE s

CheckShield(s) ==
    IF ShieldDepleted(s) THEN destroy([s EXCEPT !.shield = 0]) ELSE s

(* Division rounding toward zero *)
TruncDiv(x, d) == IF x >= 0 THEN x \div d ELSE -((-x) \div d)

(* update(), angularAmount of the two air brakes, in 1/100 rad: an      *)
(* active craft turns by airAngularSpeed * 0.5 * dt = 0.325 * dt for a  *)
(* held trigger (the arrow keys are never pressed)                      *)
AngularAmount(s, dt) ==
    IF s.active
      THEN (IF s.key["ltrigger"] THEN (325 * dt) \div 1000 ELSE 0)
           - (IF s.key["rtrigger"] THEN (325 * dt) \div 1000 ELSE 0)
      ELSE 0

(* update(), angular velocity in 1/100 rad: damped by angularLerp * 0.5 *)
(* (0.175), then lerped by angularLerp (0.35) toward angularAmount      *)
Steer(s, dt) ==
    LET damped == s.angular - TruncDiv(s.angular * 175, 1000)
    IN  damped + TruncDiv((AngularAmount(s, dt) - damped) * 35, 100)

(* update(dt) up to "Apply movement": steering, thrust, clamp, boost pads *)
Integrate(s, dt) ==
    boosterCheck([s EXCEPT !.angular = Steer(s, dt),
                           !.speed = ClampSpeed(Thrust(s, dt)),
                           !.branch = "physics"], dt)

updateWithoutFallBranch(s, dt, smp) ==
    CheckShield(collisionCheck(Translate(Integrate(s, dt), dt, smp)))

(* update(dt): the fall-only branch, else the physics step *)
update(s, dt, smp) ==
    IF s.falling
      THEN [s EXCEPT !.branch = "fall"]
      ELSE CheckShield(collisionCheck(Translate(Integrate(s, dt), dt, smp)))

(* The pose after update(dt): a frame that moves the craft takes it to   *)
(* the next of PlaceCount places round the circuit.                      *)
updatePose(s, dt, pq) ==
    IF ~s.falling /\ Moves(Integrate(s, dt), dt)
      THEN <<(pq[1] + 1) % PlaceCount, pq[2]>>
      ELSE pq

(* The setTimeout callback of fall(): this.destroyed = true *)
fallCallback(s) == [s EXCEPT !.destroyed = TRUE, !.fallTimer = -1]

(* Milliseconds of a frame of dt baseline frames (dt = delta / 16.6) *)
FrameTime(dt) == (dt * 166) \div 10

(* Time passing: the pending fall() callback comes closer *)
Elapse(s, ms) ==
    [s EXCEPT !.fallTimer = IF s.fallTimer > 0 THEN Max(0, s.fallTimer - ms) ELSE s.fallTimer]

(* teleport(pos, quat): the pose is set directly; the craft record keeps *)
(* its kinematic and damage state                                        *)
teleport(s, pq) == pq

(* ------------------------------------------------------------------ *)
(* Timer                                                               *)
(* ------------------------------------------------------------------ *)
(* idle is bookkeeping of the model: the time spent with active = false *)
(* since the last start()                                               *)
TimerInit ==
    [start |-> 0, current |-> 0, previous |-> 0, elapsed |-> 0, delta |-> 0,
     active |-> FALSE, idle |-> 0]

(* start(): start = current = previous = now, elapsed = delta = 0 *)
TimerStart(t, n) ==
    [t EXCEPT !.start = n, !.current = n, !.previous = n, !.elapsed = 0, !.delta = 0,
              !.active = TRUE, !.idle = 0]

(* pause(doPause) *)
pause(t, doPause) == [t EXCEPT !.active = ~doPause]

(* update(): no-op when inactive, else elapsed = now - start and *)
(* delta = now - previous                                         *)
TimerUpdate(t, n) ==
    IF t.active
      THEN [t EXCEPT !.current = n, !.elapsed = n - t.start,
                     !.delta = n - t.previous, !.previous = n]
      ELSE t

(* A string is the sequence of its characters. *)
Digits == <<"0", "1", "2", "3", "4", "5", "6", "7", "8", "9">>

(* Number.prototype.toString() of a whole number n >= 0 *)
RECURSIVE toString(_)
toString(n) ==
    IF n < 10 THEN <<Digits[n + 1]>> ELSE Append(toString(n \div 10), Digits[(n % 10) + 1])

padStartNone(str, len, ch) == str

(* String.prototype.padStart(len, ch) *)
RECURSIVE padStart(_, _, _)
padStart(str, len, ch) ==
    IF Len(str) >= len THEN str ELSE padStart(<<ch>> \o str, len, ch)

(* formatTime(ms): MM:SS.mmm *)
formatTime(ms) ==
    LET totalSeconds == ms \div 1000
        minutes == totalSeconds \div 60
        seconds == totalSeconds % 60
        milliseconds == ms % 1000
    IN  padStart(toString(minutes), 2, "0") \o <<":">> \o
        padStart(toString(seconds), 2, "0") \o <<".">> \o
        padStart(toString(milliseconds), 3, "0")

(* ------------------------------------------------------------------ *)
(* RaceData: a frame is <<time, position, orientation>>; seek and last *)
(* are 0-based indices as in the class                                 *)
(* ------------------------------------------------------------------ *)
rate == 2

(* asked and calls are bookkeeping of the model: the time of the last    *)
(* applyInterpolated() query (-1: none yet) and the number of tick()     *)
(* calls since construction or the last clear()                          *)
RaceDataInit ==
    [data |-> <<>>, last |-> -1, seek |-> 0, rateState |-> 1, asked |-> -1, calls |-> 0]

FrameAt(rd, i) == rd.data[i + 1]

tickEveryCall(rd, time, pq) ==
    [rd EXCEPT !.data = Append(rd.data, <<time, pq[1], pq[2]>>),
               !.last = rd.last + 1,
               !.calls = rd.calls + 1]

(* tick(time): every rate-th call appends the craft's pose *)
tick(rd, time, pq) ==
    LET pushed == IF rd.rateState = 1
                    THEN [rd EXCEPT !.data = Append(rd.data, <<time, pq[1], pq[2]>>),
                                    !.last = rd.last + 1]
                    ELSE IF rd.rateState = rate
                      THEN [rd EXCEPT !.rateState = 0]
                      ELSE rd
    IN  [pushed EXCEPT !.rateState = pushed.rateState + 1, !.calls = rd.calls + 1]

RECURSIVE SeekForwardPastEqual(_, _, _)
SeekForwardPastEqual(rd, k, time) ==
    IF k < rd.last /\ FrameAt(rd, k + 1)[1] <= time
      THEN SeekForwardPastEqual(rd, k + 1, time)
      ELSE k

(* applyInterpolated(), "Seek forward to find the right frame" *)
RECURSIVE SeekForward(_, _, _)
SeekForward(rd, k, time) ==
    IF k < rd.last /\ FrameAt(rd, k + 1)[1] < time
      THEN SeekForward(rd, k + 1, time)
      ELSE k

(* lerpVectors / slerpQuaternions at t = num / den, in integers *)
Lerp(a, b, num, den) == a + ((b - a) * num) \div den

(* applyInterpolated(time): the cursor after the call, and what the call *)
(* did: "warn" (bad race data, no pose update), "throw" (data[seek] is   *)
(* undefined and prev[1] raises a TypeError), or "teleport" to pose      *)
applyInterpolated(rd, time) ==
    LET k == SeekForward(rd, rd.seek, time)
        moved == [rd EXCEPT !.seek = k, !.asked = time]
    IN  IF k < 0
          THEN [rd |-> moved, did |-> "warn", pose |-> <<0, 0>>]
          ELSE IF k >= Len(rd.data)
            THEN [rd |-> moved, did |-> "throw", pose |-> <<0, 0>>]
            ELSE LET prev == FrameAt(rd, k)
                 IN  IF k = rd.last \/ k = 0
                       THEN [rd |-> moved, did |-> "teleport", pose |-> <<prev[2], prev[3]>>]
                       ELSE LET next == FrameAt(rd, k + 1)
                                num == time - prev[1]
                                den == next[1] - prev[1]
                            IN  IF den = 0
                                  THEN [rd |-> moved, did |-> "nan", pose |-> <<0, 0>>]
                                  ELSE [rd |-> moved, did |-> "teleport",
                                        pose |-> <<Lerp(prev[2], next[2], num, den),
                                                   Lerp(prev[3], next[3], num, den)>>]

(* export(): the frame sequence itself *)
export(rd) == rd.data

(* import(data): data and last are set; seek is left as it is *)
import(rd, data) == [rd EXCEPT !.data = data, !.last = Len(data) - 1]

(* clear() *)
clear(rd) == [rd EXCEPT !.data = <<>>, !.last = -1, !.seek = 0, !.calls = 0]

(* ------------------------------------------------------------------ *)
(* Gameplay                                                            *)
(* ------------------------------------------------------------------ *)
FINISH == 1
DESTROYED == 2
REPLAY == 4
NONE == -1
maxLaps == 3
trackStart == 0
trackLast == 2
holdDelay == 2000

Modes == {"timeattack", "survival", "replay"}
spawn == <<0, 0>>

(* The constructor.  score <<>> and finishTime -1 stand for null.  Three *)
(* fields are bookkeeping of the model: since the last start(), ends     *)
(* counts the calls of end() and finishes those of onFinish (capped at   *)
(* MaxLog); ranAt is the step at which the last update() ran the mode    *)
(* subroutine (-1: it did not); traced is the last checkpoint of the     *)
(* run start, 1, ..., last the craft has been seen on, in that order,    *)
(* since the race started or the last lap was counted; simulated tells   *)
(* whether simu() was called since the last start().                     *)
GameInit(mode, hud) ==
    [active |-> FALSE, mode |-> mode, hud |-> hud, step |-> 0,
     previousCheckPoint |-> -1, result |-> NONE,
     lap |-> 1, lapTimes |-> <<>>, lapTimeElapsed |-> 0,
     score |-> <<>>, finishTime |-> -1,
     ends |-> 0, finishes |-> 0, ranAt |-> -1, traced |-> -1,
     simulated |-> FALSE,
     analyser |-> TRUE]

startDelay(g) == IF g.hud THEN 1000 ELSE 0
countDownDelay(g) == IF g.hud THEN 1500 ELSE 1000

(* update(), the elapsed time the k-th countdown transition waits for *)
CountDownThreshold(g, k) == k * countDownDelay(g) + startDelay(g)

(* checkPoint() reads analyser.pixels.width without a loaded test: a    *)
(* TypeError while pixels is null                                       *)
checkPointThrows(w) == ~w.g.analyser

(* checkPoint(): yellow pixels (255, 255, b < 250) carry checkpoint b *)
checkPoint(w) ==
    LET color == w.ship.here.c
    IN  IF color.r = 255 /\ color.g = 255 /\ color.b < 250 THEN color.b ELSE -1

(* end(result) without the write to shipControls.active *)
endKeepsInput(w, result, n) ==
    [w EXCEPT !.g.score = formatTime(w.tm.elapsed),
              !.g.finishTime = w.tm.elapsed,
              !.tm = TimerStart(w.tm, n),
              !.g.result = result,
              !.g.step = IF result = FINISH \/ result = DESTROYED THEN 100 ELSE w.g.step,
              !.g.ends = Min(w.g.ends + 1, MaxLog)]

(* end(result) at clock n *)
end(w, result, n) ==
    [w EXCEPT !.g.score = formatTime(w.tm.elapsed),
              !.g.finishTime = w.tm.elapsed,
              !.tm = TimerStart(w.tm, n),
              !.g.result = result,
              !.ship.active = FALSE,
              !.g.step = IF result = FINISH \/ result = DESTROYED THEN 100 ELSE w.g.step,
              !.g.ends = Min(w.g.ends + 1, MaxLog)]

LapCompletedAtStart(cp, prev) == cp = trackStart

(* timeAttackMode(), "Lap completed (crossed start line after last checkpoint)" *)
LapCompleted(cp, prev) == cp = trackStart /\ prev = trackLast

(* timeAttackMode() *)
timeAttackMode(w, n) ==
    LET w1 == [w EXCEPT !.rd = tick(w.rd, w.tm.elapsed, w.pose)]
        cp == checkPoint(w1)
        t == w1.tm.elapsed
        lapped == [w1 EXCEPT !.g.previousCheckPoint = cp,
                             !.g.lapTimes = Append(w1.g.lapTimes, t - w1.g.lapTimeElapsed),
                             !.g.lapTimeElapsed = t,
                             !.g.traced = trackStart]
        w2 == IF LapCompleted(cp, w1.g.previousCheckPoint)
                THEN IF lapped.g.lap = maxLaps
                       THEN end(lapped, FINISH, n)
                       ELSE [lapped EXCEPT !.g.lap = lapped.g.lap + 1]
                ELSE LET seen == [w1 EXCEPT !.g.traced =
                                       IF cp = w1.g.traced + 1 THEN cp ELSE w1.g.traced]
                     IN  IF cp # -1 /\ cp # w1.g.previousCheckPoint
                           THEN [seen EXCEPT !.g.previousCheckPoint = cp]
                           ELSE seen
    IN  IF checkPointThrows(w1)
          THEN [w1 EXCEPT !.thrown = TRUE]
          ELSE IF w2.ship.destroyed THEN end(w2, DESTROYED, n) ELSE w2

(* survivalMode(): a stub that only warns *)
survivalMode(w, n) == w

(* replayMode() *)
replayMode(w, n) ==
    LET a == applyInterpolated(w.rd, w.tm.elapsed)
        w1 == [w EXCEPT !.rd = a.rd,
                        !.pose = IF a.did = "teleport" THEN teleport(w.ship, a.pose) ELSE w.pose]
    IN  IF a.did = "throw"
          THEN [w EXCEPT !.thrown = TRUE]
          ELSE IF w1.rd.seek = w1.rd.last THEN end(w1, REPLAY, n) ELSE w1

RacingFromCountdown(g) == g.step >= 3

EndScreenStaysActive(w) ==
    [w EXCEPT !.g.finishes = Min(w.g.finishes + 1, MaxLog)]

(* update(), "End screen display": deactivate and call onFinish *)
EndScreen(w) ==
    [w EXCEPT !.g.active = FALSE,
              !.g.finishes = Min(w.g.finishes + 1, MaxLog)]

(* update(), "Active racing" *)
Racing(g) == g.step = 4

RunMode(w, n) ==
    LET w1 == [w EXCEPT !.g.ranAt = w.g.step]
    IN  IF w.g.mode = "timeattack" THEN timeAttackMode(w1, n)
        ELSE IF w.g.mode = "replay" THEN replayMode(w1, n)
        ELSE survivalMode(w1, n)

(* update() at clock n *)
gameUpdate(w, n) ==
    IF ~w.g.active THEN w
    ELSE
      LET w1 == [w EXCEPT !.tm = TimerUpdate(w.tm, n), !.g.ranAt = -1]
          e == w1.tm.elapsed
          g == w1.g
      IN  IF g.step = 0 /\ e >= CountDownThreshold(g, 1) THEN [w1 EXCEPT !.g.step = 1]
          ELSE IF g.step = 1 /\ e >= CountDownThreshold(g, 2) THEN [w1 EXCEPT !.g.step = 2]
          ELSE IF g.step = 2 /\ e >= CountDownThreshold(g, 3) THEN [w1 EXCEPT !.g.step = 3]
          ELSE IF g.step = 3 /\ e >= CountDownThreshold(g, 4)
            THEN [w1 EXCEPT !.g.step = 4,
                            !.tm = TimerStart(w1.tm, n),
                            !.ship.active = IF g.mode # "replay" THEN TRUE ELSE w1.ship.active]
          ELSE IF Racing(g) THEN RunMode(w1, n)
          ELSE IF g.step = 100 /\ e >= holdDelay
            THEN EndScreen(w1)
          ELSE w1

(* start() at clock n, with stored the replay localStorage holds for the *)
(* track (NoReplay: no item)                                             *)
NoReplay == [has |-> FALSE, data |-> <<>>]
Replay(data) == [has |-> TRUE, data |-> data]

start(w, n, stored) ==
    LET w1 == [w EXCEPT !.g.finishTime = -1, !.g.score = <<>>, !.g.lap = 1,
                        !.ship = [reset(w.ship) EXCEPT !.active = FALSE],
                        !.pose = spawn,
                        !.g.previousCheckPoint = trackStart,
                        !.rd = RaceDataInit,
                        !.g.ends = 0, !.g.finishes = 0, !.g.ranAt = -1,
                        !.g.traced = trackStart, !.g.simulated = FALSE]
        w2 == IF w.g.mode = "replay" THEN [w1 EXCEPT !.rd = import(w1.rd, stored.data)] ELSE w1
    IN  IF w.g.mode = "replay" /\ ~stored.has
          THEN w1
          ELSE [w2 EXCEPT !.g.active = TRUE, !.g.step = 0, !.tm = TimerStart(w2.tm, n)]

(* simu() *)
simu(w) ==
    [w EXCEPT !.g.lapTimes = <<92300, 91250, 90365>>,
              !.g.finishTime = 92300 + 91250 + 90365,
              !.g.step = 100, !.g.result = FINISH,
              !.ship.active = FALSE,
              !.g.simulated = TRUE]

(* ------------------------------------------------------------------ *)
(* ImageData, Ladder and the height check, at rest in the              *)
(* specifications that do not use them                                 *)
(* ------------------------------------------------------------------ *)
(* ImageData.pixels before onload: null *)
NoPixels == [loaded |-> FALSE, width |-> 0, height |-> 0, data |-> <<>>]

NoQuery == [fn |-> "none", x |-> 0, y |-> 0, out |-> <<0, 0, 0, 0>>]

(* the (track, mode) pairs scores are filed under *)
LadderKeys == {<<"cityscape", "timeattack">>, <<"cityscape", "survival">>}

(* Ladder.data = {}: every ladder reads as [].  position is what the    *)
(* last addScore() returned and added its arguments.                    *)
LadderInit ==
    [data |-> [key \in LadderKeys |-> <<>>], position |-> 0,
     added |-> [key |-> <<"cityscape", "timeattack">>, name |-> "a", score |-> 0]]

(* movement.y and dummy.position.y in 1/10 of a world unit; code is the *)
(* height code read by the last heightCheck(), from the position.y      *)
(* before it, loaded is heightMap.loaded, checks counts the ticks       *)
MovementInit ==
    [y |-> 0, code |-> 0, at |-> 0, from |-> 0, loaded |-> FALSE, checks |-> 0]

(* RenderManager after construction: no setup registered, current null. *)
(* A setup is the pair of its id and the number of the add() call that   *)
(* created it (made counts those calls); NoSetup stands for null and for *)
(* an id the map does not hold.                                          *)
NoSetup == [id |-> "none", n |-> 0]
SetupIds == {"game", "menu"}

ManagerInit ==
    [renders |-> [id \in SetupIds |-> NoSetup], current |-> NoSetup, made |-> 0]

AuxInit ==
    /\ pixels = NoPixels /\ query = NoQuery
    /\ ladder = LadderInit /\ movement = MovementInit
    /\ manager = ManagerInit


(* ------------------------------------------------------------------ *)
(* The craft alone: key events, frames, reset, the director's writes   *)
(* to active, and the fall timer.  op names the operation a step       *)
(* performed.                                                          *)
(* ------------------------------------------------------------------ *)
ShipStart ==
    /\ ship = ShipInit /\ op = "init" /\ frames = 0
    /\ pose = spawn /\ now = 0 /\ timer = TimerInit
    /\ game = GameInit("timeattack", FALSE)
    /\ raceData = RaceDataInit /\ store = NoReplay /\ thrown = FALSE
    /\ AuxInit

KeyDown(k) ==
    /\ ~ship.key[k]
    /\ ship' = [ship EXCEPT !.key[k] = TRUE]
    /\ op' = "key"
    /\ UNCHANGED <<aux, frames, pose, now, timer, game, raceData, store, thrown>>

KeyUp(k) ==
    /\ ship.key[k]
    /\ ship' = [ship EXCEPT !.key[k] = FALSE]
    /\ op' = "key"
    /\ UNCHANGED <<aux, frames, pose, now, timer, game, raceData, store, thrown>>

Update(dt, smp) ==
    /\ ship' = Elapse(update(ship, dt, smp), FrameTime(dt))
    /\ pose' = updatePose(ship, dt, pose)
    /\ op' = "update"
    /\ UNCHANGED <<aux, now, timer, game, raceData, store, thrown>>

Reset ==
    /\ ship' = reset(ship)
    /\ pose' = spawn
    /\ op' = "reset"
    /\ UNCHANGED <<aux, frames, now, timer, game, raceData, store, thrown>>

SetActive(b) ==
    /\ ship.active # b
    /\ ship' = [ship EXCEPT !.active = b]
    /\ op' = "active"
    /\ UNCHANGED <<aux, frames, pose, now, timer, game, raceData, store, thrown>>

FallTimeout ==
    /\ ship.fallTimer = 0
    /\ ship' = fallCallback(ship)
    /\ op' = "timeout"
    /\ UNCHANGED <<aux, frames, pose, now, timer, game, raceData, store, thrown>>

(* Any dt, any key, any map, for MaxFrames frames *)
BoundedUpdate ==
    /\ frames < MaxFrames
    /\ \E dt \in DtSet, smp \in Samples : Update(dt, smp)
    /\ frames' = frames + 1

ShipNext ==
    \/ \E k \in Keys : KeyDown(k)
    \/ \E k \in Keys : KeyUp(k)
    \/ BoundedUpdate
    \/ Reset
    \/ \E b \in BOOLEAN : SetActive(b)
    \/ FallTimeout

SpecShip == ShipStart /\ [][ShipNext]_vars

(* Long frames (dt = 350) with the thrust key held or released, over any *)
(* number of frames: the craft reaches full speed within a frame, so     *)
(* repeated collisions deplete the shield.                               *)
CrashUpdate ==
    /\ \E smp \in CrashSamples : Update(350, smp)
    /\ UNCHANGED frames

CrashNext ==
    \/ KeyDown("forward")
    \/ KeyUp("forward")
    \/ CrashUpdate
    \/ Reset
    \/ \E b \in BOOLEAN : SetActive(b)
    \/ FallTimeout

SpecCrash == ShipStart /\ [][CrashNext]_vars

(* One life of the craft: the same frames, without reset() and without  *)
(* the race director's writes to active.                                *)
FallNext ==
    \/ KeyDown("forward")
    \/ KeyUp("forward")
    \/ CrashUpdate
    \/ FallTimeout

SpecFall == ShipStart /\ [][FallNext]_vars

(* ------------------------------------------------------------------ *)
(* The thrust and air-brake steps of update(), on open track: each     *)
(* frame records dt and the speeds the steps work with.                *)
(* ------------------------------------------------------------------ *)

(* the speed the left air brake takes for movement.x and movement.z    *)
(* (after its own speed -= airBrake * dt), and the one the right air   *)
(* brake takes; a brake whose trigger is not held leaves the speed     *)
BrakeSpeeds(s, dt) ==
    LET s1 == ThrustStep(s, dt)
        s2 == IF s.key["ltrigger"] THEN s1 - airBrake * dt ELSE s1
        s3 == IF s.key["rtrigger"] THEN s2 - airBrake * dt ELSE s2
    IN  <<s2, s3>>

ThrustTrace(s, dt) ==
    [fn |-> "thrust", x |-> dt, y |-> ThrustStep(s, dt),
     out |-> <<BrakeSpeeds(s, dt)[1], BrakeSpeeds(s, dt)[2], 0, 0>>]

ThrustUpdate(dt) ==
    /\ frames < MaxFrames
    /\ ship.active /\ ~ship.falling
    /\ ship' = Elapse(update(ship, dt, OpenTrack), FrameTime(dt))
    /\ pose' = updatePose(ship, dt, pose)
    /\ query' = ThrustTrace(ship, dt)
    /\ frames' = frames + 1
    /\ op' = "update"
    /\ UNCHANGED <<now, timer, game, raceData, store, thrown, pixels, ladder, movement, manager>>

ThrustNext ==
    \/ \E k \in Keys : KeyDown(k)
    \/ \E k \in Keys : KeyUp(k)
    \/ \E dt \in DtSet : ThrustUpdate(dt)

SpecThrust == ShipStart /\ [][ThrustNext]_vars

(* ------------------------------------------------------------------ *)
(* The replay log alone: a recording session, export() and import()    *)
(* into a fresh RaceData, and playback.  frames is the number of       *)
(* recorded timestamps played back since the import.                   *)
(* ------------------------------------------------------------------ *)
TickMs == {0, 500}
QueryTimes == {250, 750, 1250}
Poses == {<<p, p % 2>> : p \in 0 .. PlaceCount - 1}
NaNPose == <<-1, -1>>

(* A RaceData records until it is exported or queried *)
Recording == ~store.has /\ raceData.asked = -1

ReplayStart ==
    /\ ship = ShipInit /\ op = "init" /\ frames = 0
    /\ pose = spawn /\ now = 0 /\ timer = TimerInit
    /\ game = GameInit("replay", FALSE)
    /\ raceData = RaceDataInit /\ store = NoReplay /\ thrown = FALSE
    /\ AuxInit

MoveShip(pq) ==
    /\ Recording
    /\ pose # pq
    /\ pose' = teleport(ship, pq)
    /\ op' = "move"
    /\ UNCHANGED <<aux, ship, frames, now, timer, game, raceData, store, thrown>>

RecTick(ms) ==
    /\ Recording
    /\ Len(raceData.data) < MaxRecord
    /\ now + ms <= MaxTape
    /\ now' = now + ms
    /\ raceData' = tick(raceData, now', pose)
    /\ op' = "tick"
    /\ UNCHANGED <<aux, ship, frames, pose, timer, game, store, thrown>>

ExportImport ==
    /\ Recording
    /\ store' = Replay(export(raceData))
    /\ raceData' = import(RaceDataInit, export(raceData))
    /\ frames' = 0
    /\ op' = "import"
    /\ UNCHANGED <<aux, ship, pose, now, timer, game, thrown>>

Applied(a) ==
    /\ raceData' = a.rd
    /\ thrown' = (a.did = "throw")
    /\ pose' = IF a.did = "teleport" THEN teleport(ship, a.pose)
               ELSE IF a.did = "nan" THEN teleport(ship, NaNPose)
               ELSE pose

(* applyInterpolated(T_k) for the recorded timestamps in increasing order *)
ApplyRecorded ==
    /\ op \in {"import", "replay"}
    /\ frames < Len(store.data)
    /\ Applied(applyInterpolated(raceData, store.data[frames + 1][1]))
    /\ frames' = frames + 1
    /\ op' = "replay"
    /\ UNCHANGED <<aux, ship, now, timer, game, store>>

(* applyInterpolated(time) on an imported log, or on a log that holds   *)
(* no frame (a RaceData records or plays back, never both)             *)
ApplyAt(time) ==
    /\ store.has \/ Len(raceData.data) = 0
    /\ Applied(applyInterpolated(raceData, time))
    /\ op' = "apply"
    /\ UNCHANGED <<aux, ship, frames, now, timer, game, store>>

(* import(data) on a RaceData that has just played back recorded        *)
(* timestamps: the stored log or a shorter one (its first n frames)     *)
Reimport(n) ==
    /\ store.has
    /\ op = "replay"
    /\ raceData.data = store.data
    /\ raceData' = import(raceData, SubSeq(store.data, 1, n))
    /\ op' = "reimport"
    /\ UNCHANGED <<aux, ship, frames, pose, now, timer, game, store, thrown>>

Clear ==
    /\ op # "clear"
    /\ raceData' = clear(raceData)
    /\ op' = "clear"
    /\ UNCHANGED <<aux, ship, frames, pose, now, timer, game, store, thrown>>

ReplayNext ==
    \/ \E pq \in Poses : MoveShip(pq)
    \/ \E ms \in TickMs : RecTick(ms)
    \/ ExportImport
    \/ ApplyRecorded
    \/ \E t \in QueryTimes : ApplyAt(t)
    \/ \E n \in 0 .. MaxRecord : n <= Len(store.data) /\ Reimport(n)
    \/ Clear

SpecReplay == ReplayStart /\ [][ReplayNext]_vars

(* ------------------------------------------------------------------ *)
(* Playback as replayMode() drives it: a log recorded with             *)
(* non-decreasing timestamps (equal ones included) is imported into a  *)
(* fresh RaceData and queried at non-decreasing times.                 *)
(* ------------------------------------------------------------------ *)
MaxSeekLog == 4
SeekTimes == {0, 250, 500, 750, 1000, 1250}

SeekTick(ms) ==
    /\ Recording
    /\ Len(raceData.data) < MaxSeekLog
    /\ now + ms <= MaxTape
    /\ now' = now + ms
    /\ raceData' = tick(raceData, now', pose)
    /\ op' = "tick"
    /\ UNCHANGED <<aux, ship, frames, pose, timer, game, store, thrown>>

(* applyInterpolated(time) with time no earlier than the last query *)
SeekAt(time) ==
    /\ store.has
    /\ time >= raceData.asked
    /\ Applied(applyInterpolated(raceData, time))
    /\ op' = "apply"
    /\ UNCHANGED <<aux, ship, frames, now, timer, game, store>>

SeekNext ==
    \/ \E pq \in Poses : MoveShip(pq)
    \/ \E ms \in TickMs : SeekTick(ms)
    \/ ExportImport
    \/ \E t \in SeekTimes : SeekAt(t)

SpecSeek == ReplayStart /\ [][SeekNext]_vars

(* ------------------------------------------------------------------ *)
(* RenderManager: the map of render setups and the current one         *)
(* ------------------------------------------------------------------ *)
MaxSetups == 4

(* renders.size *)
size(rm) == Cardinality({id \in SetupIds : rm.renders[id] # NoSetup})

(* add(id, scene, camera): a new setup object is put under id; it       *)
(* becomes current if it is then the only one                            *)
add(rm, id) ==
    LET setup == [id |-> id, n |-> rm.made + 1]
        put == [rm EXCEPT !.renders[id] = setup, !.made = rm.made + 1]
    IN  IF size(put) = 1 THEN [put EXCEPT !.current = setup] ELSE put

(* remove(id) *)
remove(rm, id) ==
    IF rm.renders[id] # NoSetup
      THEN [rm EXCEPT !.current = IF rm.current = rm.renders[id] THEN NoSetup ELSE rm.current,
                      !.renders[id] = NoSetup]
      ELSE rm

(* setCurrent(id) *)
setCurrent(rm, id) ==
    IF rm.renders[id] # NoSetup THEN [rm EXCEPT !.current = rm.renders[id]] ELSE rm

(* clear() of the RenderManager *)
clearSetups(rm) ==
    [rm EXCEPT !.renders = [id \in SetupIds |-> NoSetup], !.current = NoSetup]

ManagerStart ==
    /\ ship = ShipInit /\ op = "init" /\ frames = 0
    /\ pose = spawn /\ now = 0 /\ timer = TimerInit
    /\ game = GameInit("timeattack", FALSE)
    /\ raceData = RaceDataInit /\ store = NoReplay /\ thrown = FALSE
    /\ AuxInit

Add(id) ==
    /\ manager.made < MaxSetups
    /\ manager' = add(manager, id)
    /\ op' = "add"
    /\ UNCHANGED <<ship, frames, pose, now, timer, game, raceData, store, thrown,
                   pixels, query, ladder, movement>>

Remove(id) ==
    /\ manager' = remove(manager, id)
    /\ op' = "remove"
    /\ UNCHANGED <<ship, frames, pose, now, timer, game, raceData, store, thrown,
                   pixels, query, ladder, movement>>

SetCurrent(id) ==
    /\ manager' = setCurrent(manager, id)
    /\ op' = "setCurrent"
    /\ UNCHANGED <<ship, frames, pose, now, timer, game, raceData, store, thrown,
                   pixels, query, ladder, movement>>

ClearSetups ==
    /\ manager' = clearSetups(manager)
    /\ op' = "clearSetups"
    /\ UNCHANGED <<ship, frames, pose, now, timer, game, raceData, store, thrown,
                   pixels, query, ladder, movement>>

ManagerNext ==
    \/ \E id \in SetupIds : Add(id)
    \/ \E id \in SetupIds : Remove(id)
    \/ \E id \in SetupIds : SetCurrent(id)
    \/ ClearSetups

SpecManager == ManagerStart /\ [][ManagerNext]_vars

(* ------------------------------------------------------------------ *)
(* A race: the render loop calls gameplay.update() and then            *)
(* shipControls.update(dt) every frame, dt = delta / 16.6; timers that *)
(* came due since the last frame run first.                            *)
(* ------------------------------------------------------------------ *)
FrameMs == {1000, 2000}

StartLine == Sample(CheckPointPixel(trackStart), <<255, 255, 255>>, 255, 255, 255)
MidLine == Sample(CheckPointPixel(1), <<255, 255, 255>>, 255, 255, 255)
LastLine == Sample(CheckPointPixel(trackLast), <<255, 255, 255>>, 255, 255, 255)
StartLineOffTrack == Sample(CheckPointPixel(trackStart), <<0, 0, 0>>, 0, 0, 0)

RaceSamples == {OpenTrack, StartLine, MidLine, LastLine, StartLineOffTrack}

RecordedLap == <<<<0, 0, 0>>, <<500, 1, 1>>, <<1000, 2, 0>>>>
StoredReplays == {NoReplay, Replay(<<>>), Replay(RecordedLap)}

World ==
    [g |-> game, tm |-> timer, rd |-> raceData, ship |-> ship,
     pose |-> pose, thrown |-> thrown]

SetWorld(w) ==
    /\ game' = w.g /\ timer' = w.tm /\ raceData' = w.rd
    /\ ship' = w.ship /\ pose' = w.pose /\ thrown' = w.thrown

RaceStart ==
    /\ ship = ShipInit /\ op = "init" /\ frames = 0
    /\ pose = spawn /\ now = 0 /\ timer = TimerInit
    /\ \E mode \in Modes, hud \in BOOLEAN : game = GameInit(mode, hud)
    /\ raceData = RaceDataInit /\ store \in StoredReplays /\ thrown = FALSE
    /\ AuxInit
    /\ (game.mode # "replay" => store = NoReplay)

Start ==
    /\ SetWorld(start(World, now, store))
    /\ op' = "start"
    /\ UNCHANGED <<aux, frames, now, store>>

(* One pass of the render loop, ms after the previous one; the loop is  *)
(* started after the first start().  An exception in gameplay.update()  *)
(* ends the pass.                                                       *)
Frame(ms, smp) ==
    LET n == now + ms
        dt == (ms * 10) \div 166
        waited == Elapse(ship, ms)
        due == IF waited.fallTimer = 0 THEN fallCallback(waited) ELSE waited
        w1 == gameUpdate([World EXCEPT !.ship = due, !.thrown = FALSE], n)
        w2 == IF w1.thrown
                THEN w1
                ELSE [w1 EXCEPT !.ship = update(w1.ship, dt, smp),
                                !.pose = updatePose(w1.ship, dt, w1.pose)]
    IN  /\ n <= MaxNow
        /\ op # "init"
        /\ now' = n
        /\ SetWorld(w2)
        /\ op' = "frame"
        /\ UNCHANGED <<aux, frames, store>>

RaceNext ==
    \/ Start
    \/ \E ms \in FrameMs, smp \in RaceSamples : Frame(ms, smp)
    \/ KeyDown("forward")

SpecRace == RaceStart /\ [][RaceNext]_vars

(* ------------------------------------------------------------------ *)
(* A time-attack race in which the debug shortcut simu() may be called *)
(* at any time.                                                        *)
(* ------------------------------------------------------------------ *)
SimuStart ==
    /\ ship = ShipInit /\ op = "init" /\ frames = 0
    /\ pose = spawn /\ now = 0 /\ timer = TimerInit
    /\ game = GameInit("timeattack", FALSE)
    /\ raceData = RaceDataInit /\ store = NoReplay /\ thrown = FALSE
    /\ AuxInit

Simu ==
    /\ SetWorld(simu(World))
    /\ op' = "simu"
    /\ UNCHANGED <<aux, frames, now, store>>

(* open track, and the edge of the track where the craft falls *)
SimuSamples == {OpenTrack, StartLineOffTrack}

SimuNext ==
    \/ Start
    \/ \E ms \in FrameMs, smp \in SimuSamples : Frame(ms, smp)
    \/ KeyDown("forward")
    \/ Simu

SpecSimu == SimuStart /\ [][SimuNext]_vars

(* ------------------------------------------------------------------ *)
(* A time-attack race started while the track's maps may still be      *)
(* loading: the collision map of the craft and the analyser of the     *)
(* race director.                                                      *)
(* ------------------------------------------------------------------ *)
MaxLoad == 6000

(* the maps read on the way: the start line, and a boost pad by a wall *)
LoadSamples == {StartLine, BoostPadByWall}

LoadStart ==
    /\ op = "init" /\ frames = 0
    /\ pose = spawn /\ now = 0 /\ timer = TimerInit
    /\ \E loaded \in BOOLEAN : ship = [ShipInit EXCEPT !.collisionMap = loaded]
    /\ \E loaded \in BOOLEAN :
         game = [GameInit("timeattack", FALSE) EXCEPT !.analyser = loaded]
    /\ raceData = RaceDataInit /\ store = NoReplay /\ thrown = FALSE
    /\ AuxInit

EarlyFrame(ms, smp) ==
    /\ now + ms <= MaxLoad
    /\ Frame(ms, smp)

LoadNext ==
    \/ Start
    \/ \E ms \in FrameMs, smp \in LoadSamples : EarlyFrame(ms, smp)
    \/ KeyDown("forward")

SpecLoad == LoadStart /\ [][LoadNext]_vars

(* ------------------------------------------------------------------ *)
(* Timer.formatTime on its own: whole minutes, seconds and             *)
(* milliseconds at and around every change of digit count              *)
(* ------------------------------------------------------------------ *)
FormatInputs ==
    {m * 60000 + sec * 1000 + k :
        m \in {0, 1, 9, 10, 59, 99}, sec \in {0, 9, 10, 32, 59}, k \in {0, 5, 99, 100, 300, 999}}

FormatStart ==
    /\ ship = ShipInit /\ op = "init" /\ frames = 0
    /\ pose = spawn /\ now = 0 /\ timer = TimerInit
    /\ game = GameInit("timeattack", FALSE)
    /\ raceData = RaceDataInit /\ store = NoReplay /\ thrown = FALSE
    /\ AuxInit

FormatTime(ms) ==
    /\ query' = [fn |-> "formatTime", x |-> ms, y |-> 0, out |-> formatTime(ms)]
    /\ op' = "format"
    /\ UNCHANGED <<ship, frames, pose, now, timer, game, raceData, store, thrown,
                   pixels, ladder, movement, manager>>

FormatNext == \E ms \in FormatInputs : FormatTime(ms)

SpecFormat == FormatStart /\ [][FormatNext]_vars

(* ------------------------------------------------------------------ *)
(* Ladder: the leaderboard, a list of entries per (track, mode)        *)
(* ------------------------------------------------------------------ *)
MaxOther == 1
topCount == 10

Names == {"a", "b"}
Scores == {1000, 2000}

InsertPositionBeforeTies(entries, score) ==
    IF \E i \in 1 .. Len(entries) : score <= entries[i].score
      THEN (CHOOSE i \in 1 .. Len(entries) :
              /\ score <= entries[i].score
              /\ \A j \in 1 .. i - 1 : ~(score <= entries[j].score)) - 1
      ELSE Len(entries)

(* addScore(), "Find insertion position": the first index (0-based)   *)
(* whose score is greater, else the length                            *)
InsertPosition(entries, score) ==
    IF \E i \in 1 .. Len(entries) : score < entries[i].score
      THEN (CHOOSE i \in 1 .. Len(entries) :
              /\ score < entries[i].score
              /\ \A j \in 1 .. i - 1 : ~(score < entries[j].score)) - 1
      ELSE Len(entries)

(* ladder.splice(position, 0, entry) *)
splice(entries, position, entry) ==
    SubSeq(entries, 1, position) \o <<entry>> \o SubSeq(entries, position + 1, Len(entries))

(* addScore(track, mode, name, score) *)
addScore(ld, key, name, score) ==
    LET entry == [name |-> name, score |-> score]
        position == InsertPosition(ld.data[key], score)
        spliced == splice(ld.data[key], position, entry)
        kept == IF Len(spliced) > topCount THEN SubSeq(spliced, 1, topCount) ELSE spliced
    IN  [ld EXCEPT !.data[key] = kept,
                   !.position = IF position < topCount THEN position + 1 ELSE -1,
                   !.added = [key |-> key, name |-> name, score |-> score]]

LadderStart ==
    /\ ship = ShipInit /\ op = "init" /\ frames = 0
    /\ pose = spawn /\ now = 0 /\ timer = TimerInit
    /\ game = GameInit("timeattack", FALSE)
    /\ raceData = RaceDataInit /\ store = NoReplay /\ thrown = FALSE
    /\ AuxInit

(* the second ladder takes MaxOther scores, all the same *)
AddScore(key, name, score) ==
    /\ key = <<"cityscape", "survival">> =>
         (Len(ladder.data[key]) < MaxOther /\ name = "a" /\ score = 1000)
    /\ ladder' = addScore(ladder, key, name, score)
    /\ op' = "addScore"
    /\ UNCHANGED <<ship, frames, pose, now, timer, game, raceData, store, thrown,
                   pixels, query, movement, manager>>

LadderNext ==
    \E key \in LadderKeys, name \in Names, score \in Scores : AddScore(key, name, score)

SpecLadder == LadderStart /\ [][LadderNext]_vars

(* ------------------------------------------------------------------ *)
(* ImageData: a pixel field of RGBA bytes, row-major, loaded by the    *)
(* image's onload callback.  Bilinear coordinates are in half pixels   *)
(* (fx = fx2 / 2) and bilinear channel values in quarters, so that the *)
(* weights 1 - ax and ax, with ax in {0, 1/2}, stay whole numbers.     *)
(* ------------------------------------------------------------------ *)
ImageWidth == 2
ImageHeight == 2

Colours == {<<10, 20, 30, 40>>, <<255, 60, 3, 128>>}

ZeroPixel == <<0, 0, 0, 0>>

(* processImage(): pixels = getImageData(...), loaded = true *)
processImage(paint) ==
    [loaded |-> TRUE, width |-> ImageWidth, height |-> ImageHeight,
     data |-> [i \in 1 .. 4 * ImageWidth * ImageHeight |->
                 paint[((i - 1) \div 4) + 1][((i - 1) % 4) + 1]]]

Images == {processImage(paint) : paint \in [1 .. ImageWidth * ImageHeight -> Colours]}

getPixelWrapped(px, x, y) ==
    IF ~px.loaded \/ y < 0 \/ y >= px.height
      THEN ZeroPixel
      ELSE LET index == (y * px.width + (x % px.width)) * 4
           IN  <<px.data[index + 1], px.data[index + 2],
                 px.data[index + 3], px.data[index + 4]>>

(* getPixel(x, y) *)
getPixel(px, x, y) ==
    IF ~px.loaded \/ x < 0 \/ y < 0 \/ x >= px.width \/ y >= px.height
      THEN ZeroPixel
      ELSE LET index == (y * px.width + x) * 4
           IN  <<px.data[index + 1], px.data[index + 2],
                 px.data[index + 3], px.data[index + 4]>>

(* getPixelBilinear(fx2 / 2, fy2 / 2), every channel times 4 *)
getPixelBilinear(px, fx2, fy2) ==
    LET x == fx2 \div 2
        y == fy2 \div 2
        rx2 == fx2 - 2 * x - 1
        ry2 == fy2 - 2 * y - 1
        ax2 == IF rx2 < 0 THEN -rx2 ELSE rx2
        ay2 == IF ry2 < 0 THEN -ry2 ELSE ry2
        dx == IF rx2 < 0 THEN -1 ELSE 1
        dy == IF ry2 < 0 THEN -1 ELSE 1
        c == getPixel(px, x, y)
        cx == getPixel(px, x + dx, y)
        cy == getPixel(px, x, y + dy)
        cxy == getPixel(px, x + dx, y + dy)
        cf1 == [k \in 1 .. 4 |-> (2 - ax2) * c[k] + ax2 * cx[k]]
        cf2 == [k \in 1 .. 4 |-> (2 - ax2) * cy[k] + ax2 * cxy[k]]
    IN  [k \in 1 .. 4 |-> (2 - ay2) * cf1[k] + ay2 * cf2[k]]

ImageStart ==
    /\ ship = ShipInit /\ op = "init" /\ frames = 0
    /\ pose = spawn /\ now = 0 /\ timer = TimerInit
    /\ game = GameInit("timeattack", FALSE)
    /\ raceData = RaceDataInit /\ store = NoReplay /\ thrown = FALSE
    /\ AuxInit

(* image.onload; the queries read and do not write, so a run makes one *)
(* query, before the image is loaded or after                          *)
Onload(img) ==
    /\ ~pixels.loaded
    /\ op = "init"
    /\ pixels' = img
    /\ op' = "onload"
    /\ UNCHANGED <<ship, frames, pose, now, timer, game, raceData, store, thrown,
                   query, ladder, movement, manager>>

GetPixel(x, y) ==
    /\ op # "query"
    /\ query' = [fn |-> "getPixel", x |-> x, y |-> y, out |-> getPixel(pixels, x, y)]
    /\ op' = "query"
    /\ UNCHANGED <<ship, frames, pose, now, timer, game, raceData, store, thrown,
                   pixels, ladder, movement, manager>>

GetPixelBilinear(fx2, fy2) ==
    /\ op # "query"
    /\ query' = [fn |-> "getPixelBilinear", x |-> fx2, y |-> fy2,
                 out |-> getPixelBilinear(pixels, fx2, fy2)]
    /\ op' = "query"
    /\ UNCHANGED <<ship, frames, pose, now, timer, game, raceData, store, thrown,
                   pixels, ladder, movement, manager>>

ImageNext ==
    \/ \E img \in Images : Onload(img)
    \/ \E x \in -1 .. ImageWidth, y \in -1 .. ImageHeight : GetPixel(x, y)
    \/ \E fx2 \in -1 .. 2 * ImageWidth, fy2 \in -1 .. 2 * ImageHeight :
         GetPixelBilinear(fx2, fy2)

SpecImage == ImageStart /\ [][ImageNext]_vars

(* ------------------------------------------------------------------ *)
(* The height check of a tick: update() zeroes movement, heightCheck() *)
(* adds the vertical correction, translateY(movement.y) applies it.    *)
(* The height map's code under the craft is an input.                  *)
(* ------------------------------------------------------------------ *)
MaxChecks == 3
heightScale == 10
heightBias == 4
noTerrain == 16777

(* the largest code three bytes encode is 255 + 255 * 255 + 255 * 255 * 255 *)
HeightCodes == {0, 200, 100000, 167729, 167730, 1000000, 16646655}

(* heightCheck(): height = code / heightScale + heightBias, in tenths *)
Height10(code) == code + heightBias * 10

(* heightCheck(), the correction: delta, or delta * heightLerp (0.4) *)
HeightDelta(h10, at) ==
    IF h10 - at > 0 THEN h10 - at ELSE TruncDiv((h10 - at) * 4, 10)

heightCheck(mv, code) ==
    IF ~mv.loaded
      THEN mv
      ELSE IF Height10(code) < noTerrain * 10
             THEN [mv EXCEPT !.y = mv.y + HeightDelta(Height10(code), mv.at)]
             ELSE mv

HeightStart ==
    /\ ship = ShipInit /\ op = "init" /\ frames = 0
    /\ pose = spawn /\ now = 0 /\ timer = TimerInit
    /\ game = GameInit("timeattack", FALSE)
    /\ raceData = RaceDataInit /\ store = NoReplay /\ thrown = FALSE
    /\ AuxInit

(* the height map's onload *)
HeightMapLoaded ==
    /\ ~movement.loaded
    /\ movement' = [movement EXCEPT !.loaded = TRUE]
    /\ op' = "onload"
    /\ UNCHANGED <<ship, frames, pose, now, timer, game, raceData, store, thrown,
                   pixels, query, ladder, manager>>

HeightTick(code) ==
    LET zeroed == [movement EXCEPT !.y = 0, !.code = code, !.from = movement.at,
                                   !.checks = movement.checks + 1]
        checked == heightCheck(zeroed, code)
    IN  /\ movement.checks < MaxChecks
        /\ movement' = [checked EXCEPT !.at = checked.at + checked.y]
        /\ op' = "height"
        /\ UNCHANGED <<ship, frames, pose, now, timer, game, raceData, store, thrown,
                       pixels, query, ladder, manager>>

HeightNext ==
    \/ HeightMapLoaded
    \/ \E code \in HeightCodes : HeightTick(code)

SpecHeight == HeightStart /\ [][HeightNext]_vars

(* ------------------------------------------------------------------ *)
(* A Timer on its own: once started, start(), pause() and update() are *)
(* called at any time on the wall clock.                               *)
(* ------------------------------------------------------------------ *)
MaxClock == 1000
WaitMs == {100, 250}

TimerBegin ==
    /\ ship = ShipInit /\ op = "init" /\ frames = 0
    /\ pose = spawn /\ now = 0 /\ timer = TimerInit
    /\ game = GameInit("timeattack", FALSE)
    /\ raceData = RaceDataInit /\ store = NoReplay /\ thrown = FALSE
    /\ AuxInit

(* performance.now() advances; a paused timer collects idle time *)
Wait(ms) ==
    /\ op # "init"
    /\ now + ms <= MaxClock
    /\ now' = now + ms
    /\ timer' = [timer EXCEPT !.idle = IF timer.active THEN timer.idle ELSE timer.idle + ms]
    /\ op' = "wait"
    /\ UNCHANGED <<aux, ship, frames, pose, game, raceData, store, thrown>>

ClockStart ==
    /\ timer' = TimerStart(timer, now)
    /\ op' = "start"
    /\ UNCHANGED <<aux, ship, frames, pose, now, game, raceData, store, thrown>>

ClockPause(doPause) ==
    /\ op # "init"
    /\ timer.active = doPause
    /\ timer' = pause(timer, doPause)
    /\ op' = "pause"
    /\ UNCHANGED <<aux, ship, frames, pose, now, game, raceData, store, thrown>>

ClockUpdate ==
    /\ op # "init"
    /\ timer' = TimerUpdate(timer, now)
    /\ op' = "update"
    /\ UNCHANGED <<aux, ship, frames, pose, now, game, raceData, store, thrown>>

TimerNext ==
    \/ \E ms \in WaitMs : Wait(ms)
    \/ ClockStart
    \/ \E b \in BOOLEAN : ClockPause(b)
    \/ ClockUpdate

SpecTimer == TimerBegin /\ [][TimerNext]_vars

(* C1: after every update(dt), dt >= 0, whatever the keys, the active    *)
(* flag, the boost pad or the collision, 0 <= speed <= maxSpeed; and an  *)
(* update of a craft at rest whose thrust key is not held leaves the     *)
(* speed at 0.                                                           *)
C1_SpeedWithinRange ==
    /\ [](ship.speed >= 0 /\ ship.speed <= maxSpeed)
    /\ [][(op' = "update" /\ ship.speed = 0 /\ ~ship.key["forward"])
            => ship'.speed = 0]_vars

(* a physics step of an active craft at rest, thrust key released, after *)
(* an earlier frame had driven it at full speed into a wall              *)
C1_Witness ==
    /\ op = "update" /\ ship.branch = "physics" /\ ship.active
    /\ ~ship.key["forward"] /\ ship.key["ltrigger"]
    /\ ship.speed = 0 /\ ship.shield < maxShield /\ frames = MaxFrames

(* C8: without reset() the shield never increases, a shield of 0 or less *)
(* comes with destroyed = true, and destroyed stays true until reset().  *)
C8_ShieldMonotone ==
    /\ [](ship.shield <= 0 => ship.destroyed)
    /\ [][op' # "reset" =>
            /\ ship'.shield <= ship.shield
            /\ (ship.destroyed => ship'.destroyed)]_vars

(* the shield was depleted by collisions and the craft is destroyed *)
C8_Witness ==
    ship.shield = 0 /\ ship.destroyed /\ ~ship.falling /\ op = "update"

(* C9: between two reset() calls destroy() is performed at most once *)
C9_DestroyAtMostOnce == ship.destroys <= 1

(* C10: reset() leaves neither falling nor destroyed set, and an update  *)
(* takes the fall-only branch only for a fall that happened after the    *)
(* last reset()                                                          *)
C10_ResetExitsTerminalStates ==
    /\ (op = "reset" => ~ship.falling /\ ~ship.destroyed)
    /\ (ship.branch = "fall" => ship.fell)

(* ------------------------------------------------------------------ *)
(* Claims about the replay log                                         *)
(* ------------------------------------------------------------------ *)

(* C6: after import(export()) into a fresh RaceData, applyInterpolated   *)
(* at the recorded timestamps T_0, T_1, ... in increasing order sets the *)
(* pose to that of frame k, for every k.                                 *)
C6_ReplayRoundTrip ==
    (/\ op = "replay"
     /\ \A i \in 1 .. Len(store.data) - 1 : store.data[i][1] < store.data[i + 1][1]) =>
        pose = <<store.data[frames][2], store.data[frames][3]>>

(* C7: applyInterpolated on an empty log (a fresh RaceData, after        *)
(* clear(), after an import of no frames) does not throw.                *)
C7_EmptyLogIsSkipped ==
    (op \in {"apply", "replay"} /\ Len(raceData.data) = 0) => ~thrown

(* ------------------------------------------------------------------ *)
(* Claims about the race                                               *)
(* ------------------------------------------------------------------ *)

(* The tick of a time-attack race finds the craft on the start line with *)
(* the last checkpoint as the previous one                               *)
StartCrossing ==
    /\ game.active /\ game.step = 4 /\ game.mode = "timeattack"
    /\ ship.here.c = CheckPointPixel(trackStart)
    /\ game.previousCheckPoint = trackLast

(* C2: an update() changes lap or lapTimes only on a time-attack tick    *)
(* that finds the craft on the start line with previousCheckPoint the    *)
(* last checkpoint; on such a tick with lap < maxLaps, lap grows by one  *)
(* and exactly one lap time is appended.                                 *)
C2_LapCountedAtStartLine ==
    [][op' = "frame" =>
         /\ (game'.lap # game.lap \/ game'.lapTimes # game.lapTimes) => StartCrossing
         /\ (StartCrossing /\ game.lap < maxLaps) =>
              /\ game'.lap = game.lap + 1
              /\ Len(game'.lapTimes) = Len(game.lapTimes) + 1
              /\ SubSeq(game'.lapTimes, 1, Len(game.lapTimes)) = game.lapTimes]_vars

(* the second lap has begun: one crossing counted, one lap time stored *)
C2_Witness ==
    /\ op = "frame" /\ game.mode = "timeattack" /\ game.step = 4
    /\ game.lap = 2 /\ Len(game.lapTimes) = 1

(* C3: crossing the start line on lap maxLaps sets result to FINISH and  *)
(* deactivates the craft instead of incrementing lap; and lap stays in   *)
(* 1 .. maxLaps.                                                         *)
C3_FinalLapFinishes ==
    /\ [](game.lap \in 1 .. maxLaps)
    /\ [][(op' = "frame" /\ StartCrossing /\ game.lap = maxLaps) =>
            /\ game'.result = FINISH
            /\ ~ship'.active
            /\ game'.lap = maxLaps]_vars

C5_EndedRaceHolds ==
    (game.active /\ game.ends > 0) => game.step = 100

(* ------------------------------------------------------------------ *)
(* Claims about reset() and start()                                    *)
(* ------------------------------------------------------------------ *)

(* C11: after reset(position, rotation), whatever the state before, the  *)
(* speed, the boost and the angular velocity are 0, the shield is        *)
(* maxShield, destroyed is false and the position is the one supplied.   *)
C11_ResetZeroesKinematics ==
    op = "reset" =>
        /\ ship.speed = 0 /\ ship.boost = 0 /\ ship.angular = 0
        /\ ship.shield = maxShield /\ ~ship.destroyed
        /\ pose = spawn

(* C12: after a start() that returned true (the race is active), also on *)
(* a Gameplay that has run a race before, lap = 1, lapTimes is empty and *)
(* the cumulative lap-time baseline is 0.                                *)
C12_StartResetsLapCounters ==
    (op = "start" /\ game.active) =>
        /\ game.lap = 1
        /\ game.lapTimes = <<>>
        /\ game.lapTimeElapsed = 0

(* C13: while a started race is in its countdown (step 0 to 3) the       *)
(* craft's active flag is false; the flag becomes true only in the       *)
(* update that takes step 3 to 4 of a race whose mode is not replay, and *)
(* that update sets it unless the craft falls or is destroyed in the     *)
(* same frame; in replay mode it is false for the whole race; and once   *)
(* the race has ended it is false.                                       *)
C13_InputGatedByCountdown ==
    /\ []((game.active /\ game.step \in 0 .. 3) => ~ship.active)
    /\ []((game.active /\ game.mode = "replay") => ~ship.active)
    /\ [](game.ends > 0 => ~ship.active)
    /\ [][/\ (~ship.active /\ ship'.active) =>
               /\ op' = "frame"
               /\ game.step = 3 /\ game'.step = 4
               /\ game.mode # "replay"
          /\ (/\ op' = "frame" /\ game.step = 3 /\ game'.step = 4
              /\ game.mode # "replay"
              /\ ~ship'.falling /\ ~ship'.destroyed) => ship'.active]_vars

(* a time-attack race was finished by an intact craft, whose input is    *)
(* frozen in the post-finish hold                                        *)
C13_Witness ==
    /\ op = "frame" /\ game.active /\ game.step = 100 /\ game.result = FINISH
    /\ ~ship.active /\ ~ship.falling /\ ~ship.destroyed

(* C14: a race ends at most once: end() is called at most once between  *)
(* two start() calls, and once it has been called result, finishTime    *)
(* and score do not change until the next start().                      *)
C14_RaceEndsOnce ==
    /\ [](game.ends <= 1)
    /\ [][(game.ends > 0 /\ op' # "start") =>
            /\ game'.result = game.result
            /\ game'.finishTime = game.finishTime
            /\ game'.score = game.score]_vars

(* C15: a lap is counted (lap grows, or a lap time is stored) only when  *)
(* the craft has visited every checkpoint start, 1, ..., last in order   *)
(* since the race started or the previous lap was counted.               *)
C15_FullLapTraced ==
    [][(op' = "frame" /\ (game'.lap # game.lap \/ game'.lapTimes # game.lapTimes))
         => game.traced = trackLast]_vars

(* The sum of the last k entries of a sequence of lap times *)
RECURSIVE SumLast(_, _)
SumLast(times, k) ==
    IF k <= 0 \/ Len(times) = 0
      THEN 0
      ELSE times[Len(times)] + SumLast(SubSeq(times, 1, Len(times) - 1), k - 1)

(* C16: every lap time appended to lapTimes is > 0 and is the race time  *)
(* elapsed at the crossing minus the sum of the lap times of the laps    *)
(* already completed in the current race (lap - 1 of them), after any    *)
(* sequence of start() and update() calls.                               *)
C16_LapTimeIsElapsedSinceLastLap ==
    [][(op' = "frame" /\ Len(game'.lapTimes) = Len(game.lapTimes) + 1) =>
         LET lapTime == game'.lapTimes[Len(game'.lapTimes)]
         IN  /\ lapTime > 0
             /\ lapTime = (now' - timer.start) - SumLast(game.lapTimes, game.lap - 1)]_vars

(* ------------------------------------------------------------------ *)
(* Claims about collisions                                             *)
(* ------------------------------------------------------------------ *)

(* An update ran the physics step and collisionCheck() found a wall;     *)
(* the craft neither fell nor was destroyed, which clear the flags       *)
Collided ==
    /\ op = "update" /\ ship.branch = "physics"
    /\ getPixelBilinearR4(ship.here.c, ship.here.nb) < 4 * 255
    /\ ~ship.falling /\ ~ship.destroyed

(* C17, as the code has it: on a wall collision the craft is repulsed    *)
(* away from the probe with the lower red value: left probe greater than *)
(* right sets collision.right and pushes leftward; right greater than    *)
(* left sets collision.left and pushes rightward; equal probes are a     *)
(* head-on collision (collision.front, speed 0, push straight back).     *)
C17_RepulsedAwayFromWall ==
    Collided =>
        /\ ship.here.l > ship.here.r =>
             ship.collision = [NoCollision EXCEPT !.right = TRUE] /\ ship.repulsed = "left"
        /\ ship.here.l < ship.here.r =>
             ship.collision = [NoCollision EXCEPT !.left = TRUE] /\ ship.repulsed = "right"
        /\ ship.here.l = ship.here.r =>
             /\ ship.collision = [NoCollision EXCEPT !.front = TRUE]
             /\ ship.repulsed = "back" /\ ship.speed = 0

(* a collision with the right probe on the wall and the left one on the  *)
(* track                                                                 *)
C17_Witness ==
    Collided /\ ship.here = WallOnRight /\ ship.collision.right /\ ship.shield < maxShield

(* C17, as stated: left probe greater than right sets collision.left and *)
(* pushes rightward; the mirrored case sets collision.right and pushes   *)
(* leftward; equal probes are a head-on collision.                       *)
C17_RepulsedRightWhenLeftGreater ==
    Collided =>
        /\ ship.here.l > ship.here.r =>
             ship.collision.left /\ ship.repulsed = "right"
        /\ ship.here.l < ship.here.r =>
             ship.collision.right /\ ship.repulsed = "left"
        /\ ship.here.l = ship.here.r =>
             ship.collision.front /\ ship.repulsed = "back" /\ ship.speed = 0

(* ------------------------------------------------------------------ *)
(* Claims about the replay cursor                                      *)
(* ------------------------------------------------------------------ *)

(* C18: applyInterpolated never decreases seek, and after a call with    *)
(* query time T on a non-empty log either seek = last or the timestamp   *)
(* of frame seek + 1 is >= T.                                            *)
C18_CursorForwardOnly ==
    /\ []((op \in {"apply", "replay"} /\ Len(raceData.data) > 0) =>
            \/ raceData.seek = raceData.last
            \/ /\ raceData.seek < raceData.last
               /\ raceData.data[raceData.seek + 2][1] >= raceData.asked)
    /\ [][op' \in {"apply", "replay"} => raceData'.seek >= raceData.seek]_vars

C20_StrictlyBetween ==
    op = "apply" =>
        \A i \in 1 .. Len(raceData.data) - 1 :
            LET a == raceData.data[i]
                b == raceData.data[i + 1]
            IN  (/\ a[1] < raceData.asked /\ raceData.asked < b[1]
                 /\ (a[2] - b[2] >= 2 \/ b[2] - a[2] >= 2)) =>
                    /\ Min(a[2], b[2]) < pose[1]
                    /\ pose[1] < Max(a[2], b[2])

C22_EverySecondTickRecords ==
    /\ [](game.mode = "timeattack" =>
            /\ Len(raceData.data) = (raceData.calls + 1) \div 2
            /\ raceData.last = Len(raceData.data) - 1)
    /\ [][(game.mode = "timeattack" /\ raceData'.calls = raceData.calls + 1) =>
            IF raceData.calls % 2 = 0
              THEN raceData'.data =
                     Append(raceData.data, <<now' - timer.start, pose[1], pose[2]>>)
              ELSE raceData'.data = raceData.data]_vars

(* three calls, two frames, taken at different places *)
C22_Witness ==
    /\ game.mode = "timeattack" /\ op = "frame"
    /\ raceData.calls = 3 /\ Len(raceData.data) = 2
    /\ raceData.data[1][2] # raceData.data[2][2]

(* C23: the timer does not drift from pause / resume: a paused update()  *)
(* leaves start, current, previous, elapsed and delta unchanged, and an  *)
(* update() after pause(true) ... pause(false) counts the time spent     *)
(* paused neither in elapsed nor in delta.                               *)
C23_PauseDoesNotDrift ==
    /\ []((op = "update" /\ timer.active) =>
            /\ timer.elapsed = (now - timer.start) - timer.idle
            /\ timer.delta <= timer.elapsed)
    /\ [][(op' = "update" /\ ~timer.active) => timer' = timer]_vars

(* C24: at whole-pixel coordinates (fractional offset 0 on both axes)    *)
(* getPixelBilinear(x, y) returns the channel values of getPixel(x, y),  *)
(* for every image content and every in-bounds pixel.                    *)
C24_BilinearAtWholePixelIsPoint ==
    (/\ op = "query" /\ query.fn = "getPixelBilinear" /\ pixels.loaded
     /\ query.x % 2 = 0 /\ query.y % 2 = 0
     /\ query.x \div 2 \in 0 .. pixels.width - 1
     /\ query.y \div 2 \in 0 .. pixels.height - 1) =>
        \A k \in 1 .. 4 :
            query.out[k] = 4 * getPixel(pixels, query.x \div 2, query.y \div 2)[k]

(* C30: getPixel(x, y) returns the zero pixel for every whole coordinate *)
(* outside the image and for any coordinate while the image is not       *)
(* loaded; in bounds it returns the four bytes at (y * width + x) * 4.   *)
C30_OutOfBoundsIsZero ==
    (op = "query" /\ query.fn = "getPixel") =>
        IF \/ ~pixels.loaded
           \/ query.x < 0 \/ query.y < 0
           \/ query.x >= pixels.width \/ query.y >= pixels.height
          THEN query.out = ZeroPixel
          ELSE \A k \in 1 .. 4 :
                 query.out[k] = pixels.data[(query.y * pixels.width + query.x) * 4 + k]

(* an in-bounds read of the second row of an image whose pixels differ *)
C30_Witness ==
    /\ op = "query" /\ query.fn = "getPixel" /\ pixels.loaded
    /\ query.x = 1 /\ query.y = 1
    /\ query.out = <<255, 60, 3, 128>>
    /\ getPixel(pixels, 0, 1) # query.out /\ getPixel(pixels, 1, 0) # query.out

(* C25: the height check corrects movement.y exactly when the sampled    *)
(* height code is below the no-terrain sentinel 16,777,000: a code at or *)
(* above it leaves movement.y as it was, a code below it is corrected    *)
(* toward.                                                               *)
C25_SentinelIsSixteenMillion ==
    (op = "height" /\ movement.loaded) =>
        IF movement.code >= 16777000
          THEN movement.y = 0
          ELSE movement.y = HeightDelta(Height10(movement.code), movement.from)

(* C26: a map that is not loaded never makes a tick throw: the craft's   *)
(* boost-pad and wall-collision checks leave boost, shield and collision *)
(* flags alone, and the checkpoint lookup of time-attack mode reports no *)
(* checkpoint.                                                           *)
C26_UnloadedMapIsNoOp ==
    /\ []((op = "frame" /\ ~game.analyser) => ~thrown)
    /\ [][(op' = "frame" /\ ~game.analyser) =>
            (game'.previousCheckPoint = game.previousCheckPoint /\ game'.lap = game.lap)]_vars
    /\ [][(op' = "frame" /\ ~ship.collisionMap) =>
            (/\ ship'.boost = ship.boost
             /\ ship'.shield = ship.shield
             /\ ship'.collision = ship.collision)]_vars

(* C27: formatTime(ms) is MM:SS.mmm for whole 0 <= ms < 6,000,000: two   *)
(* digits of floor(ms / 60000), two digits of floor(ms / 1000) mod 60,   *)
(* three digits of ms mod 1000, zero-padded.                             *)
C27_FormatIsMMSSmmm ==
    (op = "format" /\ query.x >= 0 /\ query.x < 6000000) =>
        LET m == query.x \div 60000
            sec == (query.x \div 1000) % 60
            k == query.x % 1000
        IN  query.out = <<Digits[(m \div 10) + 1], Digits[(m % 10) + 1], ":",
                          Digits[(sec \div 10) + 1], Digits[(sec % 10) + 1], ".",
                          Digits[(k \div 100) + 1], Digits[((k \div 10) % 10) + 1],
                          Digits[(k % 10) + 1]>>

(* formatTime(92300) = "01:32.300" *)
C27_Witness ==
    /\ op = "format" /\ query.x = 92300
    /\ query.out = <<"0", "1", ":", "3", "2", ".", "3", "0", "0">>

C29_LadderSortedTopTen ==
    /\ [](\A key \in LadderKeys :
            /\ Len(ladder.data[key]) <= 10
            /\ \A i \in 1 .. Len(ladder.data[key]) - 1 :
                 ladder.data[key][i].score <= ladder.data[key][i + 1].score)
    /\ [][op' = "addScore" =>
            LET key == ladder'.added.key
                old == ladder.data[key]
                new == ladder'.data[key]
                rank == ladder'.position
            IN  /\ \A other \in LadderKeys \ {key} : ladder'.data[other] = ladder.data[other]
                /\ IF rank = -1
                     THEN /\ new = old
                          /\ Len(old) = 10
                          /\ old[10].score <= ladder'.added.score
                     ELSE /\ rank \in 1 .. Len(new)
                          /\ new[rank] = [name |-> ladder'.added.name,
                                          score |-> ladder'.added.score]
                          /\ SubSeq(new, 1, rank - 1) = SubSeq(old, 1, rank - 1)
                          /\ SubSeq(new, rank + 1, Len(new)) =
                               SubSeq(old, rank, Len(new) - 1)
                          /\ Len(new) = IF Len(old) = 10 THEN 10 ELSE Len(old) + 1
                          /\ \A i \in 1 .. rank - 1 : new[i].score <= new[rank].score
                          /\ \A i \in rank + 1 .. Len(new) : new[rank].score < new[i].score]_vars

(* a full ladder turns a score away, and has taken a tie behind its equal *)
C29_Witness ==
    /\ op = "addScore" /\ ladder.position = -1
    /\ Len(ladder.data[ladder.added.key]) = 10
    /\ \E i \in 1 .. 9 :
         /\ ladder.data[ladder.added.key][i].score = ladder.data[ladder.added.key][i + 1].score
         /\ ladder.data[ladder.added.key][i].name # ladder.data[ladder.added.key][i + 1].name

(* ------------------------------------------------------------------ *)
(* Claims about falling                                                *)
(* ------------------------------------------------------------------ *)

(* C31: a step sets falling exactly when it is an update() whose physics *)
(* step detects a wall collision (bilinear red below 255 under the       *)
(* craft) with the left, the right and the forward-diagonal probe all    *)
(* below 128; nothing else sets falling.                                 *)
C31_FallsOnlyOutOfBounds ==
    [][(~ship.falling /\ ship'.falling) <=>
         (/\ op' = "update" /\ ~ship.falling
          /\ getPixelBilinearR4(ship'.here.c, ship'.here.nb) < 4 * 255
          /\ ship'.here.l < 128 /\ ship'.here.r < 128 /\ ship'.here.f < 128)]_vars

(* a collision at speed ends off the track and the craft falls *)
C31_Witness ==
    /\ op = "update" /\ ship.branch = "physics" /\ ship.falling
    /\ ship.here = OffTrack /\ ship.shield < maxShield

(* C32: an update() of a falling craft takes the fall-only branch: the   *)
(* speed, the boost, the angular velocity, the shield, the collision     *)
(* flags, the flags active and destroyed and the physics pose are left   *)
(* as they were, whatever keys are held.                                 *)
C32_FallingSkipsPhysics ==
    [][(op' = "update" /\ ship.falling) =>
         /\ ship'.branch = "fall"
         /\ ship'.speed = ship.speed /\ ship'.boost = ship.boost
         /\ ship'.angular = ship.angular /\ ship'.shield = ship.shield
         /\ ship'.collision = ship.collision
         /\ ship'.active = ship.active /\ ship'.destroyed = ship.destroyed
         /\ ship'.falling
         /\ ship'.here = ship.here /\ pose' = pose]_vars

(* a frame of a falling craft with the thrust key held *)
C32_Witness ==
    /\ op = "update" /\ ship.branch = "fall" /\ ship.falling
    /\ ship.key["forward"] /\ ship.here = OffTrack /\ ship.fallTimer < fallDelay

(* ------------------------------------------------------------------ *)
(* Claims about thrust and collision flags                             *)
(* ------------------------------------------------------------------ *)

(* C33: in an update() of an active craft whose thrust key is not held,  *)
(* the speed after the forward-thrust step is not below 0, and the speed *)
(* from which a held air brake computes its lateral and forward movement *)
(* is not below 0.                                                       *)
C33_ThrustStepNotBelowZero ==
    (op = "update" /\ query.fn = "thrust" /\ ~ship.key["forward"]) =>
        /\ query.y >= 0
        /\ ship.key["ltrigger"] => query.out[1] >= 0
        /\ ship.key["rtrigger"] => query.out[2] >= 0

(* C34: at the end of every update() at most one of the collision flags  *)
(* front, left, right is true, and one is true only if the physics step  *)
(* of that same update() detected a wall collision (bilinear red below   *)
(* 255 under the craft).                                                 *)
C34_FlagsOfThisTickOnly ==
    op = "update" =>
        /\ Cardinality({f \in {"front", "left", "right"} : ship.collision[f]}) <= 1
        /\ ship.collision # NoCollision =>
              /\ ship.branch = "physics"
              /\ getPixelBilinearR4(ship.here.c, ship.here.nb) < 4 * 255

(* the frame after a collision runs on open track: the shield shows the  *)
(* earlier hit and no flag is left                                       *)
C34_Witness ==
    /\ op = "update" /\ ship.branch = "physics" /\ frames = MaxFrames
    /\ ship.shield < maxShield /\ ship.here = OpenTrack
    /\ ship.collision = NoCollision /\ ~ship.destroyed /\ ~ship.falling

(* ------------------------------------------------------------------ *)
(* Claims about terrain following                                      *)
(* ------------------------------------------------------------------ *)

(* C35: after a tick whose height code is terrain (below the no-terrain  *)
(* sentinel 16,777,000) the craft is not below the terrain height: from  *)
(* below it has been raised by the full delta, to the terrain height;    *)
(* from above it has come down by the lerped part of the delta.          *)
C35_NeverBelowTerrain ==
    (op = "height" /\ movement.loaded /\ movement.code < 16777000) =>
        LET h == Height10(movement.code)
        IN  /\ movement.at >= h
            /\ movement.from < h => movement.at = h
            /\ movement.from >= h =>
                  movement.at = movement.from + TruncDiv((h - movement.from) * 4, 10)

(* C36: the callback fall() schedules does not take effect across a      *)
(* reset(): a craft is marked destroyed only by a shield depletion or a  *)
(* fall that happened after the last reset().                            *)
C36_FallCallbackDiesWithReset ==
    ship.destroyed => (ship.fell \/ ship.destroys > 0)

(* ------------------------------------------------------------------ *)
(* Claims about the end of a race                                      *)
(* ------------------------------------------------------------------ *)

(* C37: between one start() and the next onFinish is invoked at most     *)
(* once, by an update() at step 100 after end() or simu() has set the    *)
(* result; from then on the director is inactive, and an update() of an  *)
(* inactive director changes nothing of it.                              *)
C37_FinishOnce ==
    /\ [](game.finishes <= 1)
    /\ [](game.finishes > 0 =>
            /\ ~game.active
            /\ game.result # NONE
            /\ game.ends > 0 \/ game.simulated)
    /\ [][game'.finishes > game.finishes =>
            /\ op' = "frame" /\ game.active /\ game.step = 100
            /\ game.ends > 0 \/ game.simulated]_vars
    /\ [][(op' = "frame" /\ ~game.active) =>
            (game' = game /\ timer' = timer /\ raceData' = raceData)]_vars

(* a destroyed craft ended the race, the end screen has called onFinish  *)
(* and a later update() has run                                          *)
C37_Witness ==
    /\ op = "frame" /\ game.finishes = 1 /\ game.ends = 1 /\ ~game.simulated
    /\ game.result = DESTROYED /\ ~game.active
    /\ now - timer.current >= 1000

(* ------------------------------------------------------------------ *)
(* Claims about input                                                  *)
(* ------------------------------------------------------------------ *)

C39_FactorWellDefined ==
    (op = "apply" /\ 0 < raceData.seek /\ raceData.seek < raceData.last) =>
        LET prev == FrameAt(raceData, raceData.seek)
            next == FrameAt(raceData, raceData.seek + 1)
        IN  /\ prev[1] # next[1]
            /\ prev[1] < raceData.asked /\ raceData.asked <= next[1]
            /\ pose # NaNPose /\ ~thrown

(* the cursor stands on the second of two frames with the same           *)
(* timestamp and the query time is strictly inside the next interval     *)
C39_Witness ==
    /\ op = "apply" /\ raceData.seek = 2 /\ raceData.last = 3
    /\ FrameAt(raceData, 1)[1] = FrameAt(raceData, 2)[1]
    /\ FrameAt(raceData, 2)[1] < raceData.asked
    /\ raceData.asked < FrameAt(raceData, 3)[1]

(* ------------------------------------------------------------------ *)
(* Claims about the render manager                                     *)
(* ------------------------------------------------------------------ *)

(* C40: after any add(), remove(), setCurrent() and clear() calls the    *)
(* current setup is null or is the setup the map holds under its id,     *)
(* never one that was replaced or removed.                               *)
C40_CurrentIsRegistered ==
    manager.current # NoSetup => manager.renders[manager.current.id] = manager.current

====
